---------------------------- MODULE Spec2Model ----------------------------
(***************************************************************************)
(* GitHub OAuth login server (server index + routes/auth.js).               *)
(*                                                                         *)
(* State: the `users` table, the session store of express-session (one     *)
(* entry per session cookie, holding req.session.passport.user), and the   *)
(* requests in flight.  Node runs every synchronous stretch of a request   *)
(* to completion, so each action below is one such stretch: it ends where  *)
(* the code waits for the database or for GitHub.                          *)
(*                                                                         *)
(* express-session hands every request its own copy of the session, read   *)
(* from the store when the request arrives, and writes the copy back when  *)
(* the response ends, if the copy was changed (resave: false).             *)
(***************************************************************************)
EXTENDS Integers, FiniteSets, Sequences, TLC

\* ------------------------------------------------------------------ bounds
\* Requests the clients send in one behaviour.
MaxRequests == 3

\* The requests in flight at the same time: two, which is what every race
\* of the claims takes (two logins, or a login and a logout).
Slots == {1, 2}
\* Session cookies (two browsers).
Sessions == {"s1", "s2"}
\* GitHub account ids (profile.id).
GithubIds == {"g1", "g2"}
\* What GitHub may report for an account: the profile fields can change
\* between two logins of the same account.
Profiles ==
    { [id |-> g, username |-> v[1], avatar_url |-> v[2]] :
        g \in GithubIds, v \in {<<"name1", "pic1">>, <<"name2", "pic2">>} }

\* ------------------------------------------------------------- the values
\* req.session.passport.user absent.
NoUser == 0
\* req.user === undefined (also knex's user[0] of an empty result).
Undefined == [id |-> 0, github_id |-> "", username |-> "", avatar_url |-> ""]
NoProfile == [id |-> "", username |-> "", avatar_url |-> ""]
\* process.env.CLIENT_URL and the other redirect targets.
CLIENT_URL == "CLIENT_URL"
FailureRedirect == "CLIENT_URL/auth-fail"
ProviderURL == "github.com/login/oauth/authorize"

NoResponse == [status |-> 0, message |-> "", user |-> Undefined, location |-> ""]
Redirect(url) == [status |-> 302, message |-> "", user |-> Undefined, location |-> url]
Json(code, msg, usr) == [status |-> code, message |-> msg, user |-> usr, location |-> ""]

\* The login or logout that last completed in a session, for the claims.
NoAuth == [tag |-> "none", github_id |-> "", id |-> 0, branch |-> ""]
LoggedOut(from) ==
    [ tag |-> "out", github_id |-> "", id |-> 0,
      branch |-> IF from = NoUser THEN "anonymous" ELSE "user" ]
Overlapped == [tag |-> "overlapped", github_id |-> "", id |-> 0, branch |-> ""]
LoggedIn(g, i, b) == [tag |-> "in", github_id |-> g, id |-> i, branch |-> b]

VARIABLES
    users,      \* the rows of table `users`
    nextId,     \* the table's auto-increment counter
    store,      \* session store: session -> passport.user (NoUser if absent)
    req,        \* slot -> the request in it
    last,       \* the request the last step answered (Idle if it answered none)
    nreq,       \* requests sent so far
    loggedIn,   \* history: session -> a callback of it has succeeded
    auth        \* history: session -> its last completed login or logout

vars == <<users, nextId, store, req, last, nreq, loggedIn, auth>>

Idle ==
    [ kind |-> "none", sess |-> "s1", pc |-> "idle",
      sessUser |-> NoUser, origUser |-> NoUser, user |-> Undefined,
      profile |-> NoProfile, resp |-> NoResponse,
      failed |-> "", raced |-> FALSE, overlap |-> FALSE,
      authAtLoad |-> NoAuth, abortedAtLoad |-> FALSE ]

Init ==
    /\ users = {}
    /\ nextId = 1
    /\ store = [s \in Sessions |-> NoUser]
    /\ req = [r \in Slots |-> Idle]
    /\ last = Idle
    /\ nreq = 0
    /\ loggedIn = [s \in Sessions |-> FALSE]
    /\ auth = [s \in Sessions |-> NoAuth]


\* ------------------------------------------------------- the users table
\* (mutant) the lookup without its where clause.
RowsByIdNoWhere(userId) == users

\* knex('users').where({ id: userId }): the rows with this primary key.
RowsById(userId) == { u \in users : u.id = userId }

\* knex('users').select('id').where({ github_id }): the matching rows.
RowsByGithubId(g) == { u \in users : u.github_id = g }

\* user[0] of a result: the first row (lowest primary key), or undefined.
First(rows) ==
    IF rows = {} THEN Undefined
    ELSE CHOOSE u \in rows : \A v \in rows : u.id <= v.id

\* (mutant) an insert that writes the username into the github_id column.
NewRowMixedColumns(profile) ==
    [ id |-> nextId, github_id |-> profile.username,
      username |-> profile.username, avatar_url |-> profile.avatar_url ]

\* The row .insert({ github_id, avatar_url, username }) adds; the table
\* assigns the id.
NewRow(profile) ==
    [ id |-> nextId, github_id |-> profile.id,
      username |-> profile.username, avatar_url |-> profile.avatar_url ]

\* (mutant) a table without the constraint.
NoConstraint(g) == FALSE

\* The table's uniqueness constraint on github_id rejects the insert.
UniqueViolation(g) == RowsByGithubId(g) # {}

\* ------------------------------------------------------ passport callbacks
\* (mutant) serialize stores a value that is not the user's id.
SerializeUserWrongId(user) == user.id + 1

\* passport.serializeUser: done(null, user.id).
SerializeUser(user) == user.id

\* (mutant) deserialize hands on a default user when no row matches.
DeserializeUserDefault(userId) ==
    IF RowsById(userId) = {} THEN [Undefined EXCEPT !.id = userId]
    ELSE First(RowsById(userId))

\* passport.deserializeUser, the .then branch: done(null, user[0]).
DeserializeUser(userId) == First(RowsById(userId))

\* (mutant) the found branch refreshes the row from the provider profile.
UsersAfterFoundRefreshed(profile) ==
    { IF u.github_id = profile.id
      THEN [u EXCEPT !.username = profile.username,
                     !.avatar_url = profile.avatar_url]
      ELSE u : u \in users }

\* (mutant) the found branch inserts a row as the insert branch does.
UsersAfterFoundInsert(profile) == users \cup {NewRow(profile)}

\* The verify callback's found branch writes nothing to the table.
UsersAfterFound(profile) == users

\* (mutant) the found branch's select without its where clause.
FoundUserNoWhere(g) == [Undefined EXCEPT !.id = First(users).id]

\* The verify callback's found branch: done(null, user[0]) of select('id').
FoundUser(g) == [Undefined EXCEPT !.id = First(RowsByGithubId(g)).id]

\* (mutant) the insert branch hands on an id the table did not assign.
CreatedUserWrongId(userId) == [Undefined EXCEPT !.id = userId + 1]

\* The verify callback's insert branch: done(null, { id: userId[0] }).
CreatedUser(userId) == [Undefined EXCEPT !.id = userId]

\* (mutant) logout that forgets the session.
LogoutKeepsSession(q) == [q EXCEPT !.user = Undefined]

\* req.logout(): drops req.user and the user id of the request's session.
Logout(q) == [q EXCEPT !.user = Undefined, !.sessUser = NoUser]

\* (mutant) the profile route without its guard.
ProfileResponseUnguarded(user) == Json(200, "", user)

\* router.get('/profile'): 401 without req.user, else 200 with req.user.
ProfileResponse(user) ==
    IF user = Undefined THEN Json(401, "Unauthorized", Undefined)
    ELSE Json(200, "", user)

\* --------------------------------------------------------- express-session
\* (mutant) a session written back at the end of every response.
SessionAlwaysSaved(q) == TRUE

\* The session is written back at the end of the response only if the
\* request changed it (resave: false).
SessionModified(q) == q.sessUser # q.origUser

\* (mutant) one session shared by every cookie.
StoreAfterShared(q) ==
    IF SessionModified(q) THEN [s \in Sessions |-> q.sessUser] ELSE store

\* The store entry of the request's cookie is replaced by the request's copy.
StoreAfter(q) ==
    IF SessionModified(q) THEN [store EXCEPT ![q.sess] = q.sessUser] ELSE store

InFlight(q) == q.pc # "idle"

\* The request object is dropped once the response has ended; what the
\* client saw (and what the claims need of the request) is shown in `last`
\* in the state the answering step leaves.
Answered(q) ==
    [ Idle EXCEPT !.kind = q.kind, !.sess = q.sess, !.pc = "done",
                  !.resp = q.resp, !.failed = q.failed,
                  !.user = IF q.kind = "callback" THEN q.user ELSE Undefined,
                  !.sessUser = IF q.kind = "callback" THEN q.sessUser ELSE NoUser,
                  !.profile = q.profile, !.overlap = q.overlap,
                  !.authAtLoad = q.authAtLoad, !.abortedAtLoad = q.abortedAtLoad ]

\* Slot r ends its response as q; `changes` says the request was a login
\* or a logout, which the other logins and logouts of the session that are
\* still in flight have then overlapped.
Respond(r, q, changes) ==
    /\ store' = StoreAfter(q)
    /\ last' = Answered(q)
    /\ req' = [ x \in Slots |->
                  IF x = r THEN Idle
                  ELSE IF /\ changes
                          /\ InFlight(req[x])
                          /\ req[x].sess = q.sess
                          /\ req[x].kind \in {"callback", "logout"}
                       THEN [req[x] EXCEPT !.raced = TRUE]
                       ELSE req[x] ]

\* (mutant) a .catch that goes on to the success redirect.
HangAnswersSuccess(r, where) ==
    /\ req' = [req EXCEPT ![r] = Idle]
    /\ last' = Answered([req[r] EXCEPT !.failed = where,
                                       !.resp = Redirect(CLIENT_URL)])

\* The request's wait ends in a .catch that only logs: nothing continues
\* it, and nothing reads its session copy or req.user again.
Hang(r, where) ==
    /\ req' = [req EXCEPT ![r] =
                 [ Idle EXCEPT !.kind = req[r].kind, !.sess = req[r].sess,
                               !.pc = "hung", !.failed = where,
                               !.profile = req[r].profile,
                               !.raced = req[r].raced,
                               !.overlap = req[r].overlap ]]
    /\ last' = Idle

\* ----------------------------------------------------------------- actions
\* A slot that holds no request takes the next one.
Free(r) == req[r].pc = "idle"

\* History: a callback other than slot r's is in flight.
LoginInFlight(r) ==
    \E x \in Slots \ {r} : InFlight(req[x]) /\ req[x].kind = "callback"

\* Where a storage error can stop find-or-create: the select, the insert,
\* the insert refused by the uniqueness constraint.
FindOrCreateErrors == {"select", "insert", "unique"}

\* History: a login of session s was stopped by a storage error of
\* find-or-create, and no login or logout of s has completed since it began.
LoginAborted(s) ==
    \E x \in Slots :
        /\ req[x].pc = "hung" /\ req[x].sess = s
        /\ req[x].failed \in FindOrCreateErrors
        /\ ~req[x].raced

\* A request arrives: expressSession reads the session of its cookie, and
\* passport.session starts deserializeUser if the session holds a user id.
Arrive(r, s, k) ==
    /\ Free(r)
    /\ \A x \in Slots : Free(x) => r <= x
    /\ nreq < MaxRequests
    /\ nreq' = nreq + 1
    /\ req' = [ x \in Slots |->
                 IF x = r
                 THEN [ Idle EXCEPT !.kind = k, !.sess = s,
                          !.pc = IF store[s] # NoUser THEN "deserialize" ELSE "route",
                          !.sessUser = store[s], !.origUser = store[s],
                          !.overlap = k = "callback" /\ LoginInFlight(r),
                          !.authAtLoad = IF k = "profile" THEN auth[s] ELSE NoAuth,
                          !.abortedAtLoad = k = "profile" /\ LoginAborted(s) ]
                 ELSE IF k = "callback" /\ InFlight(req[x]) /\ req[x].kind = "callback"
                      THEN [req[x] EXCEPT !.overlap = TRUE]
                      ELSE req[x] ]
    /\ last' = Idle /\ UNCHANGED <<users, nextId, store, loggedIn, auth>>

\* deserializeUser's query answers: req.user = user[0]; passport drops the
\* session's user id when user[0] is undefined.
DeserializeOk(r) ==
    /\ req[r].pc = "deserialize"
    /\ LET u == DeserializeUser(req[r].sessUser)
       IN req' = [req EXCEPT ![r] =
                    [ @ EXCEPT !.pc = "route", !.user = u,
                        !.sessUser = IF u = Undefined THEN NoUser ELSE @,
                        !.failed = IF RowsById(req[r].sessUser) = {}
                                   THEN "stale" ELSE @ ]]
    /\ last' = Idle /\ UNCHANGED <<users, nextId, store, nreq, loggedIn, auth>>

\* deserializeUser's query fails: .catch logs, done is never called.
DeserializeError(r) ==
    /\ req[r].pc = "deserialize"
    /\ Hang(r, "deserialize")
    /\ UNCHANGED <<users, nextId, store, nreq, loggedIn, auth>>

\* GET /auth/github: passport.authenticate('github') redirects to GitHub.
GetGithub(r) ==
    /\ req[r].pc = "route" /\ req[r].kind = "github"
    /\ Respond(r, [req[r] EXCEPT !.resp = Redirect(ProviderURL)], FALSE)
    /\ UNCHANGED <<users, nextId, nreq, loggedIn, auth>>

\* GET /auth/profile.
GetProfile(r) ==
    /\ req[r].pc = "route" /\ req[r].kind = "profile"
    /\ Respond(r, [req[r] EXCEPT !.resp = ProfileResponse(req[r].user)], FALSE)
    /\ UNCHANGED <<users, nextId, nreq, loggedIn, auth>>

\* GET /auth/logout: req.logout() drops req.user and the session's user id,
\* then the redirect.
GetLogout(r) ==
    /\ req[r].pc = "route" /\ req[r].kind = "logout"
    /\ Respond(r, [Logout(req[r]) EXCEPT !.resp = Redirect(CLIENT_URL)], TRUE)
    /\ auth' = [auth EXCEPT ![req[r].sess] =
                  IF req[r].raced THEN Overlapped
                  ELSE LoggedOut(req[r].origUser)]
    /\ UNCHANGED <<users, nextId, nreq, loggedIn>>

\* GET /auth/github/callback?error=access_denied: the strategy fails and
\* authenticate answers with failureRedirect.
CallbackDenied(r) ==
    /\ req[r].pc = "route" /\ req[r].kind = "callback"
    /\ Respond(r, [req[r] EXCEPT !.failed = "denied",
                                 !.resp = Redirect(FailureRedirect)], FALSE)
    /\ UNCHANGED <<users, nextId, nreq, loggedIn, auth>>

\* GET /auth/github/callback?code=...: the strategy asks GitHub for the
\* token and the profile.
CallbackCode(r) ==
    /\ req[r].pc = "route" /\ req[r].kind = "callback"
    /\ req' = [req EXCEPT ![r] = [@ EXCEPT !.pc = "exchange"]]
    /\ last' = Idle /\ UNCHANGED <<users, nextId, store, nreq, loggedIn, auth>>

\* GitHub answers with profile p: the verify callback starts its select.
ExchangeOk(r, p) ==
    /\ req[r].pc = "exchange"
    /\ req' = [req EXCEPT ![r] = [@ EXCEPT !.pc = "select", !.profile = p]]
    /\ last' = Idle /\ UNCHANGED <<users, nextId, store, nreq, loggedIn, auth>>

\* GitHub refuses the code, or the token or profile request fails: the
\* strategy reports an error, which express answers with status 500.
ExchangeError(r) ==
    /\ req[r].pc = "exchange"
    /\ Respond(r, [req[r] EXCEPT !.failed = "exchange",
                                 !.resp = Json(500, "InternalOAuthError", Undefined)],
               FALSE)
    /\ UNCHANGED <<users, nextId, nreq, loggedIn, auth>>

\* done(null, user) of the verify callback: req.logIn serializes the user
\* into the session, the route handler redirects to CLIENT_URL.
LoginDone(r, user, branch) ==
    /\ Respond(r, [req[r] EXCEPT !.user = user, !.sessUser = SerializeUser(user),
                                 !.resp = Redirect(CLIENT_URL)], TRUE)
    /\ loggedIn' = [loggedIn EXCEPT ![req[r].sess] = TRUE]
    /\ auth' = [auth EXCEPT ![req[r].sess] =
                  IF req[r].raced THEN Overlapped
                  ELSE LoggedIn(req[r].profile.id, user.id, branch)]

\* The select answers.  Found: done(null, user[0]).  Not found: the insert
\* is started.
SelectOk(r) ==
    /\ req[r].pc = "select"
    /\ IF RowsByGithubId(req[r].profile.id) # {}
       THEN /\ LoginDone(r, FoundUser(req[r].profile.id), "found")
            /\ users' = UsersAfterFound(req[r].profile)
            /\ UNCHANGED <<nextId, nreq>>
       ELSE /\ req' = [req EXCEPT ![r] = [@ EXCEPT !.pc = "insert"]]
            /\ last' = Idle
            /\ UNCHANGED <<users, nextId, store, nreq, loggedIn, auth>>

\* The select fails: .catch logs 'Error fetching a user'.
SelectError(r) ==
    /\ req[r].pc = "select"
    /\ Hang(r, "select")
    /\ UNCHANGED <<users, nextId, store, nreq, loggedIn, auth>>

\* The insert answers with the new id: done(null, { id: userId[0] }).
InsertOk(r) ==
    /\ req[r].pc = "insert"
    /\ ~UniqueViolation(req[r].profile.id)
    /\ users' = users \cup {NewRow(req[r].profile)}
    /\ nextId' = nextId + 1
    /\ LoginDone(r, CreatedUser(nextId), "created")
    /\ UNCHANGED nreq

\* The insert fails (the uniqueness constraint, or any other storage
\* error): .catch logs 'Error creating a user'.
InsertError(r) ==
    /\ req[r].pc = "insert"
    /\ Hang(r, IF UniqueViolation(req[r].profile.id) THEN "unique" ELSE "insert")
    /\ UNCHANGED <<users, nextId, store, nreq, loggedIn, auth>>

Kinds == {"github", "callback", "profile", "logout"}

Next ==
    \/ \E r \in Slots, s \in Sessions, k \in Kinds : Arrive(r, s, k)
    \/ \E r \in Slots : DeserializeOk(r)
    \/ \E r \in Slots : DeserializeError(r)
    \/ \E r \in Slots : GetGithub(r)
    \/ \E r \in Slots : GetProfile(r)
    \/ \E r \in Slots : GetLogout(r)
    \/ \E r \in Slots : CallbackDenied(r)
    \/ \E r \in Slots : CallbackCode(r)
    \/ \E r \in Slots, p \in Profiles : ExchangeOk(r, p)
    \/ \E r \in Slots : ExchangeError(r)
    \/ \E r \in Slots : SelectOk(r)
    \/ \E r \in Slots : SelectError(r)
    \/ \E r \in Slots : InsertOk(r)
    \/ \E r \in Slots : InsertError(r)

Spec == Init /\ [][Next]_vars

\* A row is deleted out of band (no route of the server deletes one).
DeleteOutOfBand(u) ==
    /\ u \in users
    /\ users' = users \ {u}
    /\ last' = Idle
    /\ UNCHANGED <<nextId, store, req, nreq, loggedIn, auth>>

NextStale ==
    \/ Next
    \/ \E u \in users : DeleteOutOfBand(u)

\* The server beside an administrator who deletes rows in the database.
StaleSpec == Init /\ [][NextStale]_vars


\* What the event loop guarantees: a database or GitHub answer that has
\* arrived is handled, and a handler that is ready runs.  Clients are not
\* obliged to send requests.
Step(r) ==
    \/ DeserializeOk(r) \/ DeserializeError(r)
    \/ GetGithub(r) \/ GetProfile(r) \/ GetLogout(r)
    \/ CallbackDenied(r) \/ CallbackCode(r)
    \/ (\E p \in Profiles : ExchangeOk(r, p)) \/ ExchangeError(r)
    \/ SelectOk(r) \/ SelectError(r) \/ InsertOk(r) \/ InsertError(r)

FairSpec == Spec /\ \A r \in Slots : WF_vars(Step(r))

\* ------------------------------------------------------------------ claims
\* Every response is `last` in the state its handler leaves, so an
\* invariant over `last` speaks of every response the server sends.
Unauthorized == Json(401, "Unauthorized", Undefined)

ProfileAnswered == last.kind = "profile" /\ last.pc = "done"

LoginAnswered ==
    /\ last.kind = "callback" /\ last.pc = "done"
    /\ last.resp = Redirect(CLIENT_URL)

\* C1: GET /auth/profile answers 401 {"message":"Unauthorized"} as long as
\* no provider callback has succeeded in the request's session; it never
\* answers 200 in a session that has not logged in.
C1_ProfileUnauthorizedWithoutLogin ==
    ProfileAnswered =>
        /\ ~loggedIn[last.sess] => last.resp = Unauthorized
        /\ last.resp.status = 200 => loggedIn[last.sess]

\* C1 witness: a profile request was answered 401 in a session in which no
\* callback has succeeded, while another session is logged in.
C1_Witness ==
    /\ ProfileAnswered
    /\ ~loggedIn[last.sess]
    /\ last.resp = Unauthorized
    /\ \E s \in Sessions : loggedIn[s] /\ store[s] # NoUser

\* C2: a profile request that arrives in a session whose last completed
\* login or logout is a successful login (one that no other login or logout
\* of the session overlapped) is answered 200 with the stored User row whose
\* id find-or-create returned for the external id that logged in, whether
\* the row was found or created by that login.
C2_ProfileAfterLogin ==
    (ProfileAnswered /\ last.authAtLoad.tag = "in") =>
        /\ last.resp.status = 200
        /\ last.resp.user \in users
        /\ last.resp.user.id = last.authAtLoad.id
        /\ last.resp.user.github_id = last.authAtLoad.github_id

\* C2 witness: a profile answered 200 after a login that found its row (so
\* an earlier login created it).
C2_Witness ==
    /\ ProfileAnswered
    /\ last.authAtLoad.tag = "in"
    /\ last.authAtLoad.branch = "found"
    /\ last.resp.status = 200
    /\ last.resp.user.id = last.authAtLoad.id

\* C3: GET /auth/logout answers with a redirect to CLIENT_URL; once a logout
\* that no login of the session overlapped has completed, the session store
\* holds no user id for the session, whether it held one before or not, and
\* every profile request arriving before another login completes is
\* answered 401.
C3_LogoutClearsSession ==
    /\ (last.kind = "logout" /\ last.pc = "done") =>
          last.resp = Redirect(CLIENT_URL)
    /\ \A s \in Sessions : auth[s].tag = "out" => store[s] = NoUser
    /\ (ProfileAnswered /\ last.authAtLoad.tag = "out") =>
          last.resp = Unauthorized

\* C3 witness: a profile answered 401 after the logout of a session that
\* held a user id.
C3_Witness ==
    /\ ProfileAnswered
    /\ last.authAtLoad.tag = "out"
    /\ last.authAtLoad.branch = "user"
    /\ last.resp = Unauthorized
    /\ store[last.sess] = NoUser

\* C4: for logins that overlap no other login: a login whose external id has
\* no row inserts exactly one row, a login whose external id has a row
\* inserts none, and either way the login returns the id of the first row
\* that carries its external id.
C4_SequentialFindOrCreate ==
    /\ []((LoginAnswered /\ ~last.overlap) =>
            \E u \in users :
                /\ u.github_id = last.profile.id
                /\ \A v \in users : v.github_id = u.github_id => u.id <= v.id
                /\ last.user.id = u.id)
    /\ [](\A r \in Slots :
            (req[r].pc = "insert" /\ ~req[r].overlap) =>
                RowsByGithubId(req[r].profile.id) = {})
    /\ [][\A r \in Slots :
            (req[r].pc = "insert" /\ ~req[r].overlap /\ ~InFlight(req'[r])) =>
                /\ Cardinality(users') = Cardinality(users) + 1
                /\ users \subseteq users'
                /\ \A u \in users' \ users : u.github_id = req[r].profile.id]_vars
    /\ [][\A r \in Slots :
            (req[r].pc = "select" /\ ~InFlight(req'[r])) => users' = users]_vars

\* C4 witness: a login that overlapped no other was answered from the found
\* branch while the table holds rows of two external ids.
C4_Witness ==
    /\ LoginAnswered /\ ~last.overlap
    /\ auth[last.sess].branch = "found"
    /\ auth[last.sess].id = last.user.id
    /\ Cardinality(users) = 2

\* C5: the table never holds two rows with the same external id, whatever
\* the interleaving of the lookups and inserts of concurrent first logins.
C5_OneRowPerExternalId ==
    \A g \in GithubIds : Cardinality(RowsByGithubId(g)) <= 1

\* C5 witness: two first logins of one external id both found no row; one
\* inserted, and the other's insert was refused.
C5_Witness ==
    \E r \in Slots :
        /\ req[r].pc = "hung" /\ req[r].failed = "unique" /\ req[r].overlap
        /\ Cardinality(RowsByGithubId(req[r].profile.id)) = 1

\* C6: no step of a login changes the username or avatar_url of a row that
\* exists: every row is carried over as it is, also when the provider's
\* profile reports other values.
C6_LoginKeepsStoredProfile ==
    [][\A u \in users : u \in users']_vars

\* C6 witness: a login was answered from the found branch with a provider
\* profile whose username and avatar differ from the stored row's.
C6_Witness ==
    /\ LoginAnswered
    /\ auth[last.sess].branch = "found"
    /\ \E u \in users :
          /\ u.github_id = last.profile.id
          /\ u.id = last.user.id
          /\ u.username # last.profile.username
          /\ u.avatar_url # last.profile.avatar_url

\* C7 (as claimed): a callback whose lookup or insert failed with a storage
\* error is eventually answered.
C7_FailedLoginIsAnswered ==
    \A r \in Slots :
        (req[r].kind = "callback" /\ req[r].failed \in FindOrCreateErrors)
            ~> ~InFlight(req[r])

\* C8 (as claimed): every profile request that arrives in a session after a
\* storage error stopped a login of that session (and before any other
\* login or logout of the session completes) is answered 401.
C8_ProfileAfterAbortedLoginIs401 ==
    (ProfileAnswered /\ last.abortedAtLoad) => last.resp = Unauthorized

\* C8 (amended): a login stopped by a storage error of find-or-create sends
\* no redirect and stores no user id: a user id in the session store always
\* comes from a login that succeeded, and a profile request arriving after
\* the failure is answered 401 unless a login of that session has succeeded.
C8_AbortedLoginStoresNothing ==
    /\ last.failed \notin FindOrCreateErrors
    /\ \A r \in Slots :
          req[r].failed \in FindOrCreateErrors =>
              /\ req[r].pc = "hung"
              /\ req[r].resp = NoResponse
    /\ \A s \in Sessions : store[s] # NoUser => loggedIn[s]
    /\ (ProfileAnswered /\ last.abortedAtLoad /\ ~loggedIn[last.sess]) =>
          last.resp = Unauthorized

\* C8 witness: a profile request that arrived after a failed login, in a
\* session that never logged in, was answered 401.
C8_Witness ==
    /\ ProfileAnswered /\ last.abortedAtLoad
    /\ ~loggedIn[last.sess]
    /\ store[last.sess] = NoUser
    /\ last.resp = Unauthorized

C10_DeserializeErrorIsAnswered ==
    \A r \in Slots :
        (req[r].kind = "profile" /\ req[r].failed = "deserialize")
            ~> (~InFlight(req[r]) /\ last.resp = Unauthorized)

\* C11 (as claimed): a callback the provider denied, or whose code exchange
\* failed, is answered with the redirect to CLIENT_URL/auth-fail, never with
\* the success redirect, and leaves no user id in its session.
C11_FailedCallbackRedirectsToAuthFail ==
    (last.kind = "callback" /\ last.pc = "done"
        /\ last.failed \in {"denied", "exchange"}) =>
            /\ last.resp = Redirect(FailureRedirect)
            /\ last.resp # Redirect(CLIENT_URL)
            /\ ~loggedIn[last.sess] => store[last.sess] = NoUser

\* C12: when the success redirect to CLIENT_URL is sent, find-or-create has
\* returned the id of a row of the login's external id and serialize has put
\* exactly that id in the request's session; the session store holds it too
\* unless another login or logout of the session overlapped the callback.
C12_RedirectOnlyAfterSerialize ==
    LoginAnswered =>
        /\ last.user.id # NoUser
        /\ \E u \in users : u.id = last.user.id /\ u.github_id = last.profile.id
        /\ last.sessUser = last.user.id
        /\ auth[last.sess].tag = "in" => store[last.sess] = last.user.id

\* C12 witness: the success redirect of a first login, whose row was just
\* created and whose id the session store now holds.
C12_Witness ==
    /\ LoginAnswered
    /\ auth[last.sess].tag = "in" /\ auth[last.sess].branch = "created"
    /\ last.sessUser = nextId - 1
    /\ store[last.sess] = last.sessUser

C14_SerializeDeserializeRoundTrip ==
    \A u \in users :
        /\ SerializeUser(u) = u.id
        /\ DeserializeUser(SerializeUser(u)) = u

\* C14 witness: with two users stored, a profile request of the second
\* user's session was answered with that user's whole row.
C14_Witness ==
    /\ Cardinality(users) = 2
    /\ ProfileAnswered /\ last.resp.status = 200
    /\ store[last.sess] = 2
    /\ last.resp.user \in users
    /\ SerializeUser(last.resp.user) = store[last.sess]

\* C15: no step removes a row, and the only step that adds one is the
\* successful end of a callback whose external id had no row: it adds that
\* one row and sends the success redirect.  Login initiation, a callback for
\* an existing external id, a failed callback, a profile request and a
\* logout leave the table as it was.
C15_RowsOnlyFromFirstLogin ==
    [][/\ users \subseteq users'
       /\ users' # users =>
             \E r \in Slots :
                 /\ req[r].kind = "callback" /\ req[r].pc = "insert"
                 /\ ~InFlight(req'[r])
                 /\ RowsByGithubId(req[r].profile.id) = {}
                 /\ users' = users \cup {NewRow(req[r].profile)}
                 /\ last'.kind = "callback"
                 /\ last'.resp = Redirect(CLIENT_URL)]_vars

\* C15 witness: after one row was created, a denied callback was answered
\* and the table still holds that one row.
C15_Witness ==
    /\ last.kind = "callback" /\ last.pc = "done" /\ last.failed = "denied"
    /\ Cardinality(users) = 1
    /\ nextId = 2

\* C16: in every reachable state a session that holds a user id holds the
\* id of exactly one existing row, and a user id enters a session only at
\* the end of a login of that session whose external id is that row's
\* external_id; where no other login or logout overlapped it, the row's
\* external_id is the one of the session's last login.
C16_SessionHoldsItsLoginsRow ==
    /\ [](\A s \in Sessions :
            store[s] # NoUser =>
                /\ Cardinality(RowsById(store[s])) = 1
                /\ auth[s].tag = "in" =>
                      DeserializeUser(store[s]).github_id = auth[s].github_id)
    /\ [][\A s \in Sessions :
            (store'[s] # store[s] /\ store'[s] # NoUser) =>
                \E r \in Slots, u \in users' :
                    /\ req[r].kind = "callback" /\ req[r].sess = s
                    /\ ~InFlight(req'[r])
                    /\ u.id = store'[s]
                    /\ u.github_id = req[r].profile.id]_vars

\* C16 witness: two sessions hold the ids of two different rows, each the
\* row of the external id that logged in there.
C16_Witness ==
    /\ \A s \in Sessions :
          /\ store[s] # NoUser /\ auth[s].tag = "in"
          /\ DeserializeUser(store[s]).github_id = auth[s].github_id
    /\ store["s1"] # store["s2"]

\* C17: sessions are isolated: the stored user id of a session changes only
\* in the step that ends a request of that session, so a login, a failed
\* login or a logout of one session leaves every other session's stored
\* user id as it was.
C17_SessionsAreIsolated ==
    [][\A s \in Sessions :
         store'[s] # store[s] =>
             \E r \in Slots :
                 /\ InFlight(req[r]) /\ req[r].sess = s
                 /\ ~InFlight(req'[r])]_vars

\* C17 witness: two sessions logged in as the same user; one has logged
\* out and the other still holds the user's id.
C17_Witness ==
    /\ last.kind = "logout" /\ last.pc = "done"
    /\ auth[last.sess].tag = "out" /\ auth[last.sess].branch = "user"
    /\ store[last.sess] = NoUser
    /\ Cardinality(users) = 1
    /\ \E s \in Sessions \ {last.sess} :
          store[s] # NoUser /\ auth[s].tag = "in"

=============================================================================
